---------------------------- MODULE Spec2Model ----------------------------
(***************************************************************************)
(* A model of the AV Hub backend (src/backend): the admin CRUD handlers    *)
(* over the seven entity tables, the admin check of auth.py, and the       *)
(* report aggregation of main.py (funding amount parsing, dashboard        *)
(* total, policy map rollup).                                              *)
(*                                                                         *)
(* Values.  A Python str is a tuple of characters, each character a        *)
(* one-code-point TLA+ string; a non-ASCII code point is written by its    *)
(* name ("U+0663").  None is the tuple <<"None">>, which is no str since   *)
(* "None" is no character.  A float is a pair <<m, e>> of naturals         *)
(* standing for m / 10^e, kept normalised (e = 0 or m not divisible by     *)
(* 10), so that two pairs are equal exactly when the numbers are.          *)
(***************************************************************************)
EXTENDS Integers, Sequences, FiniteSets, TLC

VARIABLES
    store,       \* the database: entity kind -> set of rows (field -> value)
    req,         \* the HTTP request being answered
    resp,        \* the response to req: status code and body
    focus,       \* the entity kind whose endpoints the requests address
    amount_str,  \* argument of _parse_funding_amount
    amount,      \* <<>> before the call, <<result>> after it
    sessions     \* the ORM sessions of the admin writes running concurrently

vars == <<store, req, resp, focus, amount_str, amount, sessions>>

None == <<"None">>

-----------------------------------------------------------------------------
(***************************************************************************)
(* Characters and numbers                                                  *)
(***************************************************************************)

AsciiDigits == {"0", "1", "2", "3", "4", "5", "6", "7", "8", "9"}

\* U+0663 ARABIC-INDIC DIGIT THREE: general category Nd, digit value 3.
UnicodeDigits == {"U+0663"}

DigitValue(c) ==
    CASE c = "0" -> 0 [] c = "1" -> 1 [] c = "2" -> 2 [] c = "3" -> 3
      [] c = "4" -> 4 [] c = "5" -> 5 [] c = "6" -> 6 [] c = "7" -> 7
      [] c = "8" -> 8 [] c = "9" -> 9 [] c = "U+0663" -> 3

RECURSIVE Normalise(_, _)
Normalise(m, e) ==
    IF e > 0 /\ m % 10 = 0 THEN Normalise(m \div 10, e - 1) ELSE <<m, e>>

Zero == <<0, 0>>

RECURSIVE Pow10(_)
Pow10(n) == IF n = 0 THEN 1 ELSE 10 * Pow10(n - 1)

\* a + b on normalised pairs
FloatAdd(a, b) ==
    LET e == IF a[2] > b[2] THEN a[2] ELSE b[2]
    IN  Normalise(a[1] * Pow10(e - a[2]) + b[1] * Pow10(e - b[2]), e)

-----------------------------------------------------------------------------
(***************************************************************************)
(* _parse_funding_amount (main.py 118-126)                                 *)
(***************************************************************************)

\* `not amount_str`: None and the empty str are falsy.
Falsy(s) == s = None \/ s = <<>>

\* The class [\d.] of a str pattern: \d is every Unicode decimal digit.
ReDigitOrDot(c) == c \in AsciiDigits \cup UnicodeDigits \cup {"."}

\* re.sub with the class [^\d]: the decimal point is stripped too.
ReSubNoDot(s) == SelectSeq(s, LAMBDA c : c \in AsciiDigits \cup UnicodeDigits)

\* re.sub(r"[^\d.]", "", amount_str)
ReSub(s) == SelectSeq(s, ReDigitOrDot)

\* float(cleaned) for a str of digits and dots, scanned left to right:
\* st = <<mantissa, digits seen, dot seen, fraction digits, malformed>>.
RECURSIVE FloatScan(_, _, _)
FloatScan(s, i, st) ==
    IF i > Len(s) THEN st
    ELSE IF s[i] = "."
         THEN FloatScan(s, i + 1,
                        <<st[1], st[2], 1, st[4], IF st[3] = 1 THEN 1 ELSE st[5]>>)
         ELSE FloatScan(s, i + 1,
                        <<st[1] * 10 + DigitValue(s[i]), st[2] + 1, st[3],
                          st[4] + st[3], st[5]>>)

\* ValueError: a second dot, or no digit at all ("" and "." included).
Float(s) ==
    LET st == FloatScan(s, 1, <<0, 0, 0, 0, 0>>)
    IN  IF st[5] = 1 \/ st[2] = 0
        THEN [raised |-> TRUE, value |-> Zero]
        ELSE [raised |-> FALSE, value |-> Normalise(st[1], st[4])]

\* The function without its try/except: the ValueError propagates.
ParseNoExcept(s) ==
    IF Falsy(s) THEN [raised |-> FALSE, value |-> Zero] ELSE Float(ReSub(s))

_parse_funding_amount(s) ==
    IF Falsy(s) THEN [raised |-> FALSE, value |-> Zero]
    ELSE LET cleaned == ReSub(s)
             r == Float(cleaned)
         IN  IF r.raised THEN [raised |-> FALSE, value |-> Zero] ELSE r


-----------------------------------------------------------------------------
(***************************************************************************)
(* Amount parsing as a specification: the inputs are None, every str of at *)
(* most MaxAmountLen characters over AmountAlphabet, and the amounts the   *)
(* documentation quotes.                                                   *)
(***************************************************************************)

MaxAmountLen == 3

AmountAlphabet == {"$", ",", ".", "0", "1", "5", "M", "U+0663"}

Amount100M == <<"$", "1", "0", "0", ",", "0", "0", "0", ",", "0", "0", "0">>
Amount1250 == <<"$", "1", "2", ".", "5", "0">>
Amount5M == <<"$", "5", "M">>
AmountAbc == <<"a", "b", "c">>
Amount123 == <<"1", ".", "2", ".", "3">>
AmountDot == <<".">>

AmountInputs ==
    {None, Amount100M, Amount1250, Amount5M, AmountAbc, Amount123, AmountDot}
    \cup UNION {[1..n -> AmountAlphabet] : n \in 0..MaxAmountLen}

NoRequest == [op |-> "none"]
NoResponse == [status |-> 0]

InitParse ==
    /\ amount_str \in AmountInputs
    /\ amount = <<>>
    /\ store = <<>>
    /\ req = NoRequest
    /\ resp = NoResponse
    /\ focus = "none"
    /\ sessions = <<>>

\* One call of _parse_funding_amount(amount_str).
CallParse ==
    /\ amount = <<>>
    /\ amount' = <<_parse_funding_amount(amount_str)>>
    /\ UNCHANGED <<store, req, resp, focus, amount_str, sessions>>

NextParse == CallParse

SpecParse == InitParse /\ [][NextParse]_vars

\* The number a str of digits denotes, most significant digit first.
RECURSIVE NatOf(_)
NatOf(t) ==
    IF t = <<>> THEN 0
    ELSE 10 * NatOf(SubSeq(t, 1, Len(t) - 1)) + DigitValue(t[Len(t)])

\* The amount of a text when `digits` are the characters kept with '.':
\* what is left is a number when it has at most one '.' and a digit.
StrippedAmount(s, digits) ==
    IF s = None THEN Zero
    ELSE LET Kept(c) == c \in digits \cup {"."}
             kept == SelectSeq(s, Kept)
             dots == {i \in 1..Len(kept) : kept[i] = "."}
             p == IF dots = {} THEN Len(kept) + 1 ELSE CHOOSE i \in dots : TRUE
             whole == SubSeq(kept, 1, p - 1)
             frac == SubSeq(kept, p + 1, Len(kept))
         IN  IF Cardinality(dots) > 1 \/ Cardinality(dots) = Len(kept)
             THEN Zero
             ELSE Normalise(NatOf(whole) * Pow10(Len(frac)) + NatOf(frac), Len(frac))

QuotedAmounts ==
    /\ amount_str = Amount100M => amount[1].value = <<100000000, 0>>
    /\ amount_str = Amount1250 => amount[1].value = <<125, 1>>
    /\ amount_str = Amount5M => amount[1].value = <<5, 0>>
    /\ amount_str \in {None, <<>>, AmountAbc, Amount123, AmountDot}
           => amount[1].value = Zero

\* C1 as stated: for every input, _parse_funding_amount returns without
\* raising the number left after deleting every character that is not an
\* ASCII digit or '.', or 0.0 when the input is null or empty or what is left
\* is empty or no number; "$100,000,000" gives 100000000.0, "$12.50" 12.5,
\* "$5M" 5.0.
C1_AsciiDigitsKept ==
    amount # <<>> =>
        /\ ~amount[1].raised
        /\ amount[1].value = StrippedAmount(amount_str, AsciiDigits)
        /\ QuotedAmounts

\* C1 amended: the characters kept are '.' and every decimal digit, ASCII or
\* not (a non-ASCII digit counts with its digit value); the rest of the claim
\* stands: no input raises, a null, empty or malformed amount gives 0.0, and
\* the quoted amounts give the quoted numbers.
C1_DecimalDigitsKept ==
    amount # <<>> =>
        /\ ~amount[1].raised
        /\ amount[1].value = StrippedAmount(amount_str, AsciiDigits \cup UnicodeDigits)
        /\ QuotedAmounts

\* C1 witness: an amount holding a non-ASCII digit has been parsed to 3.5.
C1_Witness ==
    /\ amount_str = <<"U+0663", ".", "5">>
    /\ amount = <<[raised |-> FALSE, value |-> <<35, 1>>]>>

-----------------------------------------------------------------------------
(***************************************************************************)
(* The tables (models.py) and the request schemas (schemas.py)             *)
(*                                                                         *)
(* A row is a function from the column names of its table to values.  The  *)
(* columns created_at and updated_at, which the database fills in and no   *)
(* handler reads, are left out.  A value is None, a str, or a tagged       *)
(* tuple: <<"date", y, y, y, y, m, m, d, d>> for a date, <<"float", text>> *)
(* for a float and <<"bool", text>> for a bool.                            *)
(***************************************************************************)

Kinds ==
    {"Policy", "Deployment", "FundingProgram", "SafetyIncident", "Resource",
     "CurbsideRegulation", "NewsArticle"}

\* schemas.py: the fields of <Kind>Base declared without a default.
RequiredFields(k) ==
    CASE k = "Policy" -> {"jurisdiction", "policy_type", "title", "status"}
      [] k = "Deployment" -> {"operator", "city", "state", "status"}
      [] k = "FundingProgram" -> {"program_name", "agency", "status"}
      [] k = "SafetyIncident" -> {"date", "manufacturer", "incident_type"}
      [] k = "Resource" -> {"title", "author_org", "resource_type"}
      [] k = "CurbsideRegulation" -> {"city", "state", "status"}
      [] k = "NewsArticle" -> {"headline", "source_org", "publication_date"}

\* schemas.py: the fields of <Kind>Base declared Optional[...] = None.
OptionalFields(k) ==
    CASE k = "Policy" ->
            {"state_code", "vehicle_class", "date_enacted", "summary", "source_url"}
      [] k = "Deployment" ->
            {"program_name", "state_code", "latitude", "longitude", "vehicle_type",
             "operational_domain", "start_date", "description", "source_url"}
      [] k = "FundingProgram" ->
            {"funding_type", "total_funding", "award_range", "application_deadline",
             "date_enacted", "date_closed", "eligibility", "description",
             "av_relevance", "source_url"}
      [] k = "SafetyIncident" ->
            {"report_id", "vehicle_model", "city", "state", "state_code", "latitude",
             "longitude", "severity", "ads_engaged", "description", "source",
             "source_url"}
      [] k = "Resource" ->
            {"publication_date", "tags", "topic_area", "summary", "url"}
      [] k = "CurbsideRegulation" ->
            {"state_code", "latitude", "longitude", "regulation_type", "description",
             "applies_to", "date_adopted", "source_url"}
      [] k = "NewsArticle" -> {"summary", "url", "category"}

SchemaFields(k) == RequiredFields(k) \cup OptionalFields(k)

\* models.py: the columns of the table, the timestamps apart.
Columns(k) == {"id"} \cup SchemaFields(k)

\* models.py: Column(..., unique=True)
UniqueColumns(k) == IF k = "SafetyIncident" THEN {"report_id"} ELSE {}

DateFields ==
    {"date_enacted", "start_date", "application_deadline", "date_closed", "date",
     "publication_date", "date_adopted"}
FloatFields == {"latitude", "longitude"}
BoolFields == {"ads_engaged"}

FieldType(f) ==
    IF f \in DateFields THEN "date"
    ELSE IF f \in FloatFields THEN "float"
    ELSE IF f \in BoolFields THEN "bool"
    ELSE "str"

Tags == {"None", "date", "float", "bool"}

IsStr(v) == v = <<>> \/ v[1] \notin Tags
IsTagged(v, tag) == v # <<>> /\ v[1] = tag

\* An ISO-8601 calendar date, YYYY-MM-DD.
IsIsoDate(v) ==
    /\ IsStr(v)
    /\ Len(v) = 10
    /\ v[5] = "-" /\ v[8] = "-"
    /\ \A i \in {1, 2, 3, 4, 6, 7, 9, 10} : v[i] \in AsciiDigits

IsDigitChar(c) == c \in AsciiDigits

\* date.fromisoformat
DateOf(v) == <<"date">> \o SelectSeq(v, IsDigitChar)

\* pydantic's validation of one JSON value against a field type: the value
\* the field takes, or Invalid.
Invalid == <<"Invalid">>

Coerce(type, v) ==
    CASE type = "str" -> IF IsStr(v) THEN v ELSE Invalid
      [] type = "date" -> IF IsIsoDate(v) THEN DateOf(v) ELSE Invalid
      [] type = "float" -> IF IsTagged(v, "float") THEN v ELSE Invalid
      [] type = "bool" -> IF IsTagged(v, "bool") THEN v ELSE Invalid

\* The value of field f after validation of the JSON object `body` against
\* <Kind>Create: a required field must be present and not null, an optional
\* one defaults to None.
FieldValue(k, f, body) ==
    IF f \notin DOMAIN body
    THEN IF f \in RequiredFields(k) THEN Invalid ELSE None
    ELSE IF body[f] = None
         THEN IF f \in RequiredFields(k) THEN Invalid ELSE None
         ELSE Coerce(FieldType(f), body[f])

\* data.dict(exclude_unset=True): only the fields the request holds.
ValidateExcludeUnset(k, body) ==
    LET data == [f \in SchemaFields(k) \cap DOMAIN body |-> FieldValue(k, f, body)]
    IN  [ok |-> \A f \in SchemaFields(k) : FieldValue(k, f, body) # Invalid,
         data |-> data]

\* data: <Kind>Create, then data.dict(): every schema field, defaults filled.
Validate(k, body) ==
    LET data == [f \in SchemaFields(k) |-> FieldValue(k, f, body)]
    IN  [ok |-> \A f \in SchemaFields(k) : data[f] # Invalid, data |-> data]

-----------------------------------------------------------------------------
(***************************************************************************)
(* The admin check (auth.py)                                               *)
(*                                                                         *)
(* Credentials are <<username, password>>, or <<>> for a request without   *)
(* an Authorization header, which HTTPBasic answers with 401 itself.       *)
(* bcrypt.checkpw against the hash of the admin password is equality with  *)
(* that password.                                                          *)
(***************************************************************************)

ADMIN_USERNAME == <<"a", "d", "m", "i", "n">>
AdminPassword == <<"a", "v", "h", "u", "b", "2", "0", "2", "4">>

\* The check with `or` for `and`.
VerifyAdminEither(credentials) ==
    /\ credentials # <<>>
    /\ credentials[1] = ADMIN_USERNAME \/ credentials[2] = AdminPassword

\* TRUE when verify_admin returns the username, FALSE when it raises 401.
verify_admin(credentials) ==
    /\ credentials # <<>>
    /\ LET correct_username == credentials[1] = ADMIN_USERNAME
           correct_password == credentials[2] = AdminPassword
       IN  correct_username /\ correct_password

-----------------------------------------------------------------------------
(***************************************************************************)
(* The handlers of main.py, one action per endpoint, for any kind k: the   *)
(* seven groups of endpoints differ in the table and the schema only.      *)
(***************************************************************************)

MaxId == 2

Max(S) == CHOOSE x \in S : \A y \in S : y <= x

\* One more than the number of rows.
NextIdByCount(rows) == Cardinality(rows) + 1

\* The id the database gives a new row: an INTEGER PRIMARY KEY column takes
\* one more than the largest id in the table.
NextId(rows) == IF rows = {} THEN 1 ELSE Max({r.id : r \in rows}) + 1

\* The query without its filter.
FindNoFilter(rows, id) == rows

\* db.query(K).filter(K.id == id).first()
Find(rows, id) == {r \in rows : r.id = id}

\* The table without its unique constraints.
UniqueNotEnforced(k, rows) == TRUE

\* The unique constraints: no two rows share a non-null value.
UniqueOk(k, rows) ==
    \A c \in UniqueColumns(k) : \A r1, r2 \in rows :
        (r1[c] = r2[c] /\ r1[c] # None) => r1 = r2

\* K(**data.dict()), the id as the database assigns it
NewRow(k, data, id) ==
    [c \in Columns(k) |->
        IF c = "id" THEN id ELSE IF c \in DOMAIN data THEN data[c] ELSE None]

\* for key, value in data.dict().items(): setattr(item, key, value)
SetAttrs(item, data) ==
    [c \in DOMAIN item |-> IF c \in DOMAIN data THEN data[c] ELSE item[c]]

Response(status, body) == [status |-> status, body |-> body]

\* POST /api/admin/<kind>
Create(k, body, credentials) ==
    LET v == Validate(k, body)
        item == NewRow(k, v.data, NextId(store[k]))
    IN  /\ NextId(store[k]) <= MaxId
        /\ req' = [op |-> "create", kind |-> k, id |-> 0, body |-> body,
                   credentials |-> credentials]
        /\ IF ~verify_admin(credentials)
           THEN resp' = Response(401, <<>>) /\ store' = store
           ELSE IF ~v.ok
           THEN resp' = Response(422, <<>>) /\ store' = store
           ELSE IF ~UniqueOk(k, store[k] \cup {item})
           THEN resp' = Response(500, <<>>) /\ store' = store
           ELSE /\ store' = [store EXCEPT ![k] = @ \cup {item}]
                /\ resp' = Response(200, item)
        /\ UNCHANGED <<focus, amount_str, amount, sessions>>

\* PUT /api/admin/<kind>/{id}
Update(k, id, body, credentials) ==
    LET v == Validate(k, body)
        found == Find(store[k], id)
    IN  /\ req' = [op |-> "update", kind |-> k, id |-> id, body |-> body,
                   credentials |-> credentials]
        /\ IF ~verify_admin(credentials)
           THEN resp' = Response(401, <<>>) /\ store' = store
           ELSE IF ~v.ok
           THEN resp' = Response(422, <<>>) /\ store' = store
           ELSE IF found = {}
           THEN resp' = Response(404, <<>>) /\ store' = store
           ELSE LET old == CHOOSE r \in found : TRUE
                    item == SetAttrs(old, v.data)
                    rows == (store[k] \ {old}) \cup {item}
                IN  IF ~UniqueOk(k, rows)
                    THEN resp' = Response(500, <<>>) /\ store' = store
                    ELSE /\ store' = [store EXCEPT ![k] = rows]
                         /\ resp' = Response(200, item)
        /\ UNCHANGED <<focus, amount_str, amount, sessions>>

\* DELETE /api/admin/<kind>/{id}
Delete(k, id, credentials) ==
    LET found == Find(store[k], id)
    IN  /\ req' = [op |-> "delete", kind |-> k, id |-> id, body |-> <<>>,
                   credentials |-> credentials]
        /\ IF ~verify_admin(credentials)
           THEN resp' = Response(401, <<>>) /\ store' = store
           ELSE IF found = {}
           THEN resp' = Response(404, <<>>) /\ store' = store
           ELSE /\ store' = [store EXCEPT ![k] = @ \ found]
                /\ resp' = Response(200, <<>>)
        /\ UNCHANGED <<focus, amount_str, amount, sessions>>

\* GET /api/<kind>/{id}
Get(k, id) ==
    LET found == Find(store[k], id)
    IN  /\ req' = [op |-> "get", kind |-> k, id |-> id, body |-> <<>>,
                   credentials |-> <<>>]
        /\ IF found = {}
           THEN resp' = Response(404, <<>>)
           ELSE resp' = Response(200, CHOOSE r \in found : TRUE)
        /\ UNCHANGED <<store, focus, amount_str, amount, sessions>>

-----------------------------------------------------------------------------
(***************************************************************************)
(* The server answering one request after another.  The requests address   *)
(* the endpoints of one kind, `focus`, with these JSON bodies: every field *)
(* given; the required fields alone; a required field empty; a required    *)
(* field missing; an "id" added to the fields; a date that is no date.     *)
(***************************************************************************)

IsoA == <<"2", "0", "2", "4", "-", "0", "1", "-", "0", "5">>
IsoB == <<"2", "0", "2", "3", "-", "1", "2", "-", "3", "1">>

SampleA(f) ==
    CASE FieldType(f) = "str" -> <<"a">>
      [] FieldType(f) = "date" -> IsoA
      [] FieldType(f) = "float" -> <<"float", "37.5">>
      [] FieldType(f) = "bool" -> <<"bool", "True">>

SampleB(f) ==
    CASE FieldType(f) = "str" -> <<"b">>
      [] FieldType(f) = "date" -> IsoB
      [] FieldType(f) = "float" -> <<"float", "0.0">>
      [] FieldType(f) = "bool" -> <<"bool", "False">>

\* The required str field the documentation names for each kind.
NamedRequired(k) ==
    CASE k = "Policy" -> "jurisdiction"
      [] k = "Deployment" -> "operator"
      [] k = "FundingProgram" -> "program_name"
      [] k = "SafetyIncident" -> "manufacturer"
      [] k = "Resource" -> "title"
      [] k = "CurbsideRegulation" -> "city"
      [] k = "NewsArticle" -> "headline"

BodyFull(k) == [f \in SchemaFields(k) |-> SampleA(f)]
BodyMin(k) == [f \in RequiredFields(k) |-> SampleB(f)]
BodyEmpty(k) == [BodyFull(k) EXCEPT ![NamedRequired(k)] = <<>>]
BodyMissing(k) == [f \in SchemaFields(k) \ {NamedRequired(k)} |-> SampleA(f)]
BodyWithId(k) == [f \in SchemaFields(k) \cup {"id"} |->
                     IF f = "id" THEN <<"int", "9">> ELSE SampleA(f)]
BodyBadDate(k) ==
    [BodyFull(k) EXCEPT ![CHOOSE f \in SchemaFields(k) : f \in DateFields] = <<"x">>]

Bodies(k) ==
    {BodyFull(k), BodyMin(k), BodyEmpty(k), BodyMissing(k), BodyWithId(k),
     BodyBadDate(k)}

BadCredentials ==
    {<<>>, <<ADMIN_USERNAME, <<"x">>>>, <<<<"r", "o", "o", "t">>, AdminPassword>>}

Credentials == {<<ADMIN_USERNAME, AdminPassword>>} \cup BadCredentials

\* The admin writes tried: every body with the admin's credentials, and a
\* valid and an invalid body with each of the others.
AdminInputs(k) ==
    (Bodies(k) \X {<<ADMIN_USERNAME, AdminPassword>>})
    \cup ({BodyFull(k), BodyMissing(k)} \X BadCredentials)

\* The same, kind by kind.
AdminInputsOf == [k \in Kinds |-> AdminInputs(k)]

RequestIds == 1..(MaxId + 1)

\* on_startup: the database file is removed, the tables are created empty
\* and seed_database fills them.
SeedRows(k) == {}

Init ==
    /\ store = [k \in Kinds |-> SeedRows(k)]
    /\ focus \in Kinds
    /\ req = NoRequest
    /\ resp = NoResponse
    /\ amount_str = None
    /\ amount = <<>>
    /\ sessions = <<>>

CreateRequest ==
    \E in \in AdminInputsOf[focus] : Create(focus, in[1], in[2])

UpdateRequest ==
    \E in \in AdminInputsOf[focus], id \in RequestIds :
        Update(focus, id, in[1], in[2])

DeleteRequest ==
    \E credentials \in Credentials, id \in RequestIds :
        Delete(focus, id, credentials)

GetRequest == \E id \in RequestIds : Get(focus, id)

Next == CreateRequest \/ UpdateRequest \/ DeleteRequest \/ GetRequest

Spec == Init /\ [][Next]_vars

-----------------------------------------------------------------------------
(***************************************************************************)
(* Properties of the admin writes                                          *)
(***************************************************************************)

AdminOps == {"create", "update", "delete"}

Ids(rows) == {r.id : r \in rows}

RightCredentials(r) == r.credentials = <<ADMIN_USERNAME, AdminPassword>>

\* C3: an admin create, update or delete whose username or password does not
\* match the admin's is answered 401 and leaves the store unchanged; every
\* step that changes the store is a request carrying the right username and
\* the right password.
C3_UnauthorizedRejected ==
    [][/\ (req'.op \in AdminOps /\ ~RightCredentials(req'))
            => (resp'.status = 401 /\ store' = store)
       /\ store' # store
            => (req'.op \in AdminOps /\ RightCredentials(req'))]_vars

\* C3 witness: an update of a stored record with the right password and the
\* wrong username was answered 401.
C3_Witness ==
    /\ req.op = "update"
    /\ req.credentials = <<<<"r", "o", "o", "t">>, AdminPassword>>
    /\ req.id \in Ids(store[req.kind])
    /\ resp.status = 401

\* C4: no two stored records of a kind share an identifier; an update leaves
\* the identifiers of the kind as they were and answers with the identifier
\* it was addressed to; a create removes no identifier.
C4_IdentifiersUniqueImmutable ==
    /\ [](\A k \in Kinds : \A r1, r2 \in store[k] : r1.id = r2.id => r1 = r2)
    /\ [][\A k \in Kinds :
            /\ req'.op = "update" => Ids(store'[k]) = Ids(store[k])
            /\ (req'.op = "update" /\ resp'.status = 200)
                  => resp'.body.id = req'.id
            /\ req'.op = "create" => Ids(store[k]) \subseteq Ids(store'[k])]_vars

\* C4 witness: a record with identifier 1 was updated by a request whose body
\* carried another "id", next to a second record of its kind.
C4_Witness ==
    /\ req.op = "update" /\ resp.status = 200
    /\ req.id = 1
    /\ "id" \in DOMAIN req.body
    /\ Ids(store[req.kind]) = {1, 2}

\* The value a field holds once the JSON value v is stored in it.
Stored(f, v) == IF f \in DateFields THEN DateOf(v) ELSE v

\* C5: after a successful update the record holds, in every mutable field,
\* the value of the submitted payload, and None in every optional field the
\* payload omits.
C5_UpdateReplacesAllFields ==
    (req.op = "update" /\ resp.status = 200) =>
        \E r \in store[req.kind] :
            /\ r.id = req.id
            /\ r = resp.body
            /\ \A f \in SchemaFields(req.kind) :
                  r[f] = IF f \in DOMAIN req.body /\ req.body[f] # None
                         THEN Stored(f, req.body[f])
                         ELSE None

\* C5 witness: an update that omits the optional fields succeeded, next to a
\* second record of the kind that has them.
C5_Witness ==
    /\ req.op = "update" /\ resp.status = 200
    /\ req.body = BodyMin(req.kind)
    /\ \E r \in store[req.kind] :
          r.id # req.id /\ \A f \in OptionalFields(req.kind) : r[f] # None

\* The bodies <Kind>Create accepts, among those tried.
AcceptedBodies(k) == {BodyFull(k), BodyMin(k), BodyEmpty(k), BodyWithId(k)}

Absent(r) == r.id \notin Ids(store[r.kind])

\* C6 as stated: a get, update or delete addressed to an identifier that is
\* not in the store is answered 404 and leaves the store unchanged; after a
\* successful delete of an identifier, the next get of it is answered 404.
C6_AbsentIsNotFound ==
    [][/\ (req'.op \in {"get", "update", "delete"}
           /\ req'.id \notin Ids(store[req'.kind]))
            => (resp'.status = 404 /\ store' = store)
       /\ (req.op = "delete" /\ resp.status = 200
           /\ req'.op = "get" /\ req'.id = req.id)
            => resp'.status = 404]_vars

\* C6 amended: a get, update or delete addressed to an identifier that is not
\* in the store leaves the store unchanged, and it is answered 404 when it is
\* a get, or an update or delete that passes the admin check and (an update)
\* carries a body the schema accepts: the admin check (401) and the
\* validation of the body (422) come before the lookup.  After a successful
\* delete the identifier is not in the store, and the next get of it is
\* answered 404.
C6_AbsentIsNotFoundOnceAdmitted ==
    /\ []((req.op = "delete" /\ resp.status = 200) => Absent(req))
    /\ [][/\ (req'.op \in {"get", "update", "delete"}
              /\ req'.id \notin Ids(store[req'.kind]))
               => /\ store' = store
                  /\ resp'.status \in {401, 404, 422}
                  /\ resp'.status = 401
                        <=> (req'.op # "get" /\ ~RightCredentials(req'))
                  /\ resp'.status = 422
                        <=> /\ req'.op = "update"
                            /\ RightCredentials(req')
                            /\ req'.body \notin AcceptedBodies(req'.kind)
          /\ (req.op = "delete" /\ resp.status = 200
              /\ req'.op = "get" /\ req'.id = req.id)
               => resp'.status = 404]_vars

\* C6 witness: an admin's delete of an identifier that is not in the store,
\* while another record is, was answered 404.
C6_Witness ==
    /\ req.op = "delete" /\ resp.status = 404
    /\ RightCredentials(req)
    /\ store[req.kind] # {}

\* C7: every stored record has a value that is neither null nor the empty
\* string in each required field of its kind, and a create whose body lacks
\* a required field or gives it as the empty string is answered 422 and
\* stores nothing.
C7_RequiredNonEmpty ==
    /\ \A k \in Kinds : \A r \in store[k] : \A f \in RequiredFields(k) :
          r[f] # None /\ r[f] # <<>>
    /\ (req.op = "create" /\ RightCredentials(req)
        /\ \E f \in RequiredFields(req.kind) :
              f \notin DOMAIN req.body \/ req.body[f] = <<>>)
          => resp.status = 422

-----------------------------------------------------------------------------
(***************************************************************************)
(* The dashboard (main.py 132-176)                                         *)
(***************************************************************************)

RecentPoliciesLimit == 5
RecentNewsLimit == 6

\* db.query(Policy.state_code).distinct().count(): the rows of SELECT
\* DISTINCT, the NULL one among them.
DistinctCount(rows, column) == Cardinality({r[column] : r \in rows})

\* sum(_parse_funding_amount(fp.total_funding) for fp in funding_programs
\*     if fp.total_funding), an exception of the parser ending the sum.
RECURSIVE SumFunding(_)
SumFunding(rows) ==
    IF rows = {} THEN [raised |-> FALSE, value |-> Zero]
    ELSE LET fp == CHOOSE r \in rows : \A q \in rows : q.id <= r.id
             rest == SumFunding(rows \ {fp})
             parsed == IF Falsy(fp.total_funding)
                       THEN [raised |-> FALSE, value |-> Zero]
                       ELSE _parse_funding_amount(fp.total_funding)
         IN  IF rest.raised \/ parsed.raised
             THEN [raised |-> TRUE, value |-> Zero]
             ELSE [raised |-> FALSE, value |-> FloatAdd(rest.value, parsed.value)]

\* order_by(K.id.desc()).limit(n).all()
RECURSIVE LatestById(_, _)
LatestById(rows, n) ==
    IF n = 0 \/ rows = {} THEN <<>>
    ELSE LET top == CHOOSE r \in rows : \A q \in rows : q.id <= r.id
         IN  <<top>> \o LatestById(rows \ {top}, n - 1)

\* A date as the number YYYYMMDD.
DateNumber(d) == NatOf(Tail(d))

\* order_by(K.publication_date.desc()).limit(n).all(): every list the query
\* may return, rows of one date coming in any order.
RECURSIVE LatestByDate(_, _)
LatestByDate(rows, n) ==
    IF n = 0 \/ rows = {} THEN {<<>>}
    ELSE LET tops == {r \in rows : \A q \in rows :
                        DateNumber(q.publication_date)
                            <= DateNumber(r.publication_date)}
         IN  UNION {{<<top>> \o rest : rest \in LatestByDate(rows \ {top}, n - 1)} :
                    top \in tops}

\* The count taken from the id of the newest row.
QueryCountByLastId(rows) == IF rows = {} THEN 0 ELSE Max({r.id : r \in rows})

\* db.query(K).count()
QueryCount(rows) == Cardinality(rows)

\* GET /api/dashboard
Dashboard ==
    LET funding == SumFunding(store["FundingProgram"])
    IN  /\ req' = [op |-> "dashboard"]
        /\ IF funding.raised
           THEN resp' = Response(500, <<>>)
           ELSE \E recent_news \in LatestByDate(store["NewsArticle"], RecentNewsLimit) :
                  resp' = Response(200,
                    [total_policies |-> QueryCount(store["Policy"]),
                     total_deployments |-> QueryCount(store["Deployment"]),
                     total_funding_programs |-> QueryCount(store["FundingProgram"]),
                     total_safety_incidents |-> QueryCount(store["SafetyIncident"]),
                     total_resources |-> QueryCount(store["Resource"]),
                     total_curbside_regulations |->
                         QueryCount(store["CurbsideRegulation"]),
                     total_news_articles |-> QueryCount(store["NewsArticle"]),
                     states_with_legislation |->
                         DistinctCount(store["Policy"], "state_code"),
                     total_funding_amount |-> funding.value,
                     recent_policies |->
                         LatestById(store["Policy"], RecentPoliciesLimit),
                     recent_news |-> recent_news])
        /\ UNCHANGED <<store, focus, amount_str, amount, sessions>>

(***************************************************************************)
(* The dashboard over funding programs an admin creates and deletes, their *)
(* total_funding drawn from FundingTexts (None: the field is omitted).     *)
(***************************************************************************)

FundingTexts ==
    {None, <<>>, AmountAbc, Amount123, Amount1250, Amount5M, <<"U+0663">>}

FundingBody(text) ==
    [f \in RequiredFields("FundingProgram") \cup
           (IF text = None THEN {} ELSE {"total_funding"}) |->
        IF f = "total_funding" THEN text ELSE SampleB(f)]

Admin == <<ADMIN_USERNAME, AdminPassword>>

InitDashboard ==
    /\ store = [k \in Kinds |-> SeedRows(k)]
    /\ focus = "FundingProgram"
    /\ req = NoRequest
    /\ resp = NoResponse
    /\ amount_str = None
    /\ amount = <<>>
    /\ sessions = <<>>

CreateFunding == \E text \in FundingTexts : Create(focus, FundingBody(text), Admin)

UpdateFunding ==
    \E text \in FundingTexts, id \in RequestIds :
        Update(focus, id, FundingBody(text), Admin)

DeleteFunding == \E id \in RequestIds : Delete(focus, id, Admin)

NextDashboard == CreateFunding \/ UpdateFunding \/ DeleteFunding \/ Dashboard

SpecDashboard == InitDashboard /\ [][NextDashboard]_vars

\* The sum of the amounts of all the rows, an amount being what is left of
\* the text when all but the decimal digits and '.' is deleted, or 0.
RECURSIVE TotalOfAll(_)
TotalOfAll(rows) ==
    IF rows = {} THEN Zero
    ELSE LET r == CHOOSE x \in rows : TRUE
         IN  FloatAdd(StrippedAmount(r.total_funding, AsciiDigits \cup UnicodeDigits),
                      TotalOfAll(rows \ {r}))

\* C2: the dashboard answers 200 whatever the funding texts are, and its
\* total_funding_amount is the sum over all FundingProgram records of the
\* parsed total_funding, a null, empty or malformed one counting 0.
C2_TotalFundingNeverFails ==
    req.op = "dashboard" =>
        /\ resp.status = 200
        /\ resp.body.total_funding_amount = TotalOfAll(store["FundingProgram"])

\* C2 witness: the dashboard was computed over a malformed amount and a
\* well-formed one, and its total is 12.5.
C2_Witness ==
    /\ req.op = "dashboard"
    /\ {r.total_funding : r \in store["FundingProgram"]} = {Amount123, Amount1250}
    /\ resp.status = 200
    /\ resp.body.total_funding_amount = <<125, 1>>

-----------------------------------------------------------------------------
(***************************************************************************)
(* Two admin writes to one record running at once.  The handlers are plain *)
(* functions, which the server runs on worker threads, each with a session *)
(* of its own; a write is two steps.  The first is the SELECT of           *)
(* db.query(K).filter(K.id == id).first().  The second is db.commit(),     *)
(* which flushes the session: for an update, an UPDATE of the columns      *)
(* whose new value differs from the value the SELECT loaded (a row that is *)
(* gone by then is an error, and so is the refresh of a row that is gone); *)
(* for a delete, a DELETE of the row (a row that is gone is only warned    *)
(* about).                                                                 *)
(***************************************************************************)

\* A required str field of the kind other than the named one.
OtherRequired(k) ==
    CHOOSE f \in RequiredFields(k) : f # NamedRequired(k) /\ FieldType(f) = "str"

\* The stored record as an edit form sends it back, one field changed.
BodyEdit(k, f) == [BodyFull(k) EXCEPT ![f] = SampleB(f)]

Writes(k) ==
    {[op |-> "update", id |-> 1, body |-> b, credentials |-> Admin] :
        b \in {BodyEdit(k, NamedRequired(k)), BodyEdit(k, OtherRequired(k)),
               BodyMin(k)}}
    \cup {[op |-> "delete", id |-> 1, body |-> <<>>, credentials |-> Admin]}

Session(w) == [write |-> w, pc |-> "start", item |-> {}, status |-> 0]

\* The table `focus` holds the record an admin created with every field
\* given, and two writes to it have arrived.
InitConcurrent ==
    /\ focus \in Kinds
    /\ store = [k \in Kinds |->
                  IF k = focus
                  THEN {NewRow(k, Validate(k, BodyFull(k)).data, 1)}
                  ELSE SeedRows(k)]
    /\ \E w1, w2 \in Writes(focus) : sessions = <<Session(w1), Session(w2)>>
    /\ req = [op |-> "concurrent", before |-> store[focus]]
    /\ resp = NoResponse
    /\ amount_str = None
    /\ amount = <<>>

Finish(i, status) ==
    sessions' = [sessions EXCEPT ![i].pc = "done", ![i].status = status]

\* The handler up to its SELECT.
BeginWrite(i) ==
    LET w == sessions[i].write
        found == Find(store[focus], w.id)
    IN  /\ sessions[i].pc = "start"
        /\ IF ~verify_admin(w.credentials) THEN Finish(i, 401)
           ELSE IF w.op = "update" /\ ~Validate(focus, w.body).ok THEN Finish(i, 422)
           ELSE IF found = {} THEN Finish(i, 404)
           ELSE sessions' = [sessions EXCEPT ![i].pc = "loaded", ![i].item = found]
        /\ UNCHANGED <<store, req, resp, focus, amount_str, amount>>

\* setattr on the loaded item, db.commit() and db.refresh(item); or
\* db.delete(item) and db.commit().
CommitWrite(i) ==
    LET w == sessions[i].write
        loaded == CHOOSE r \in sessions[i].item : TRUE
        current == Find(store[focus], w.id)
        data == Validate(focus, w.body).data
        changed == {c \in DOMAIN data : data[c] # loaded[c]}
        row == CHOOSE r \in current : TRUE
        updated == [c \in DOMAIN row |-> IF c \in changed THEN data[c] ELSE row[c]]
        rows == (store[focus] \ current) \cup {updated}
    IN  /\ sessions[i].pc = "loaded"
        /\ IF w.op = "delete"
           THEN /\ store' = [store EXCEPT ![focus] = @ \ current]
                /\ Finish(i, 200)
           ELSE IF current = {}
           THEN store' = store /\ Finish(i, 500)
           ELSE IF changed = {}
           THEN store' = store /\ Finish(i, 200)
           ELSE IF ~UniqueOk(focus, rows)
           THEN store' = store /\ Finish(i, 500)
           ELSE /\ store' = [store EXCEPT ![focus] = rows]
                /\ Finish(i, 200)
        /\ UNCHANGED <<req, resp, focus, amount_str, amount>>

Select == \E i \in DOMAIN sessions : BeginWrite(i)

Commit == \E i \in DOMAIN sessions : CommitWrite(i)

NextConcurrent == Select \/ Commit

SpecConcurrent == InitConcurrent /\ [][NextConcurrent]_vars

\* The table after the write w has run alone, start to end.
Written(k, rows, w) ==
    LET target == {r \in rows : r.id = w.id}
    IN  IF w.op = "delete" THEN rows \ target
        ELSE {IF r \in target
              THEN [c \in DOMAIN r |->
                      IF c = "id" THEN r.id
                      ELSE IF c \in DOMAIN w.body THEN Stored(c, w.body[c])
                      ELSE None]
              ELSE r : r \in rows}

\* C8: once two admin writes to the same record have both ended, the table
\* is as if one had run after the other, in one of the two orders; after two
\* updates the record is one of the two payloads in full.
C8_WritesAtomic ==
    (sessions # <<>> /\ \A i \in DOMAIN sessions : sessions[i].pc = "done") =>
        LET w1 == sessions[1].write
            w2 == sessions[2].write
        IN  store[focus] \in
                {Written(focus, Written(focus, req.before, w1), w2),
                 Written(focus, Written(focus, req.before, w2), w1)}

-----------------------------------------------------------------------------
(***************************************************************************)
(* The policy map rollup (main.py 220-258)                                 *)
(***************************************************************************)

UpperCase ==
    <<"A", "B", "C", "D", "E", "F", "G", "H", "I", "J", "K", "L", "M", "N", "O",
      "P", "Q", "R", "S", "T", "U", "V", "W", "X", "Y", "Z">>

LowerCase ==
    <<"a", "b", "c", "d", "e", "f", "g", "h", "i", "j", "k", "l", "m", "n", "o",
      "p", "q", "r", "s", "t", "u", "v", "w", "x", "y", "z">>

\* str.lower() over the ASCII letters
Lower(s) ==
    [i \in 1..Len(s) |->
        IF \E n \in DOMAIN UpperCase : UpperCase[n] = s[i]
        THEN LowerCase[CHOOSE n \in DOMAIN UpperCase : UpperCase[n] = s[i]]
        ELSE s[i]]

Enacted == <<"e", "n", "a", "c", "t", "e", "d">>
Active == <<"a", "c", "t", "i", "v", "e">>
Signed == <<"s", "i", "g", "n", "e", "d">>
Pending == <<"p", "e", "n", "d", "i", "n", "g">>
Proposed == <<"p", "r", "o", "p", "o", "s", "e", "d">>
Introduced == <<"i", "n", "t", "r", "o", "d", "u", "c", "e", "d">>

\* The classification that compares the status as it is stored.
PolicyStatusCaseSensitive(top_status) ==
    IF ~Falsy(top_status) /\ top_status \in {Enacted, Active, Signed}
    THEN "active"
    ELSE IF ~Falsy(top_status) /\ top_status \in {Pending, Proposed, Introduced}
    THEN "under_consideration"
    ELSE "none"

\* policy_status, for the map colouring
PolicyStatus(top_status) ==
    IF ~Falsy(top_status) /\ Lower(top_status) \in {Enacted, Active, Signed}
    THEN "active"
    ELSE IF ~Falsy(top_status)
            /\ Lower(top_status) \in {Pending, Proposed, Introduced}
    THEN "under_consideration"
    ELSE "none"

\* The keys of a grouping that drops the NULL group.
GroupKeysNoNull(rows, column) == {r[column] : r \in rows} \ {None}

\* The keys of GROUP BY column: the values of the column, NULL among them.
GroupKeys(rows, column) == {r[column] : r \in rows}

\* A group that takes every row, whatever its key.
GroupNoFilter(rows, column, key) == rows

\* The rows of one group: column == key, which is column IS NULL for None.
Group(rows, column, key) == {r \in rows : r[column] = key}

\* func.count(Policy.id) over a group
Count(rows) == Cardinality({r.id : r \in rows})

\* The statuses the top-status query may return for a state: GROUP BY status
\* ORDER BY count DESC, first row.  Which of several statuses of the largest
\* count comes first is not determined.
TopStatuses(rows, state_code) ==
    LET of_state == Group(rows, "state_code", state_code)
        n(s) == Count(Group(of_state, "status", s))
    IN  {s \in GroupKeys(of_state, "status") :
            \A t \in GroupKeys(of_state, "status") : n(t) <= n(s)}

MapEntry(rows, state_code, top_status) ==
    [state_code |-> state_code,
     count |-> Count(Group(rows, "state_code", state_code)),
     status |-> top_status,
     policy_status |-> PolicyStatus(top_status)]

\* The lists the handler may build over the groups `keys`: GROUP BY without
\* ORDER BY yields the groups in any order.
RECURSIVE MapEntries(_, _)
MapEntries(rows, keys) ==
    IF keys = {} THEN {<<>>}
    ELSE UNION {{<<MapEntry(rows, k, top)>> \o rest :
                    top \in TopStatuses(rows, k),
                    rest \in MapEntries(rows, keys \ {k})} : k \in keys}

\* GET /api/policies/map/states
MapStates ==
    /\ req' = [op |-> "map_states"]
    /\ \E out \in MapEntries(store["Policy"], GroupKeys(store["Policy"], "state_code")) :
          resp' = Response(200, out)
    /\ UNCHANGED <<store, focus, amount_str, amount, sessions>>

(***************************************************************************)
(* The rollup over policies an admin creates and deletes, their state_code *)
(* and status drawn from MapPolicies (None: the state_code is omitted).    *)
(***************************************************************************)

CA == <<"C", "A">>
TX == <<"T", "X">>
ActiveCapital == <<"A", "c", "t", "i", "v", "e">>
SignedUpper == <<"S", "I", "G", "N", "E", "D">>
ProposedCapital == <<"P", "r", "o", "p", "o", "s", "e", "d">>
Draft == <<"d", "r", "a", "f", "t">>

MapPolicies ==
    ({CA} \X {Enacted, ActiveCapital, SignedUpper, Pending, ProposedCapital,
              Introduced, Draft, <<>>})
    \cup ({TX} \X {Pending, Draft})
    \cup ({None} \X {Enacted, Pending})

PolicyBody(state_code, status) ==
    [f \in RequiredFields("Policy") \cup
           (IF state_code = None THEN {} ELSE {"state_code"}) |->
        IF f = "state_code" THEN state_code
        ELSE IF f = "status" THEN status
        ELSE SampleB(f)]

InitMap ==
    /\ store = [k \in Kinds |-> SeedRows(k)]
    /\ focus = "Policy"
    /\ req = NoRequest
    /\ resp = NoResponse
    /\ amount_str = None
    /\ amount = <<>>
    /\ sessions = <<>>

CreatePolicy == \E p \in MapPolicies : Create(focus, PolicyBody(p[1], p[2]), Admin)

DeletePolicy == \E id \in RequestIds : Delete(focus, id, Admin)

NextMap == CreatePolicy \/ DeletePolicy \/ MapStates

SpecMap == InitMap /\ [][NextMap]_vars

C10_PolicyStatusBuckets ==
    req.op = "map_states" =>
        \A i \in DOMAIN resp.body :
            LET e == resp.body[i]
                low == IF e.status = None THEN None ELSE Lower(e.status)
                active == low \in {Enacted, Active, Signed}
                under == low \in {Pending, Proposed, Introduced}
            IN  /\ e.policy_status \in {"active", "under_consideration", "none"}
                /\ e.policy_status = "active" <=> active
                /\ e.policy_status = "under_consideration" <=> under
                /\ e.policy_status = "none" <=> ~active /\ ~under

\* C10 witness: the rollup of a CA policy of status "SIGNED" and a TX policy
\* of status "draft" reports CA active and TX none.
C10_Witness ==
    /\ req.op = "map_states"
    /\ \E i, j \in DOMAIN resp.body :
          /\ resp.body[i].state_code = CA
          /\ resp.body[i].status = SignedUpper
          /\ resp.body[i].policy_status = "active"
          /\ resp.body[j].state_code = TX
          /\ resp.body[j].status = Draft
          /\ resp.body[j].policy_status = "none"

-----------------------------------------------------------------------------
(***************************************************************************)
(* The map-locations endpoints (main.py 370-385, 655-671, 883-898)         *)
(***************************************************************************)

FloatZero == <<"float", "0.0">>

\* The truth value of a column value in `if x`: None, the empty str and the
\* float 0.0 are false.
Truthy(v) == ~(Falsy(v) \/ v = FloatZero)

\* date.isoformat()
IsoFormat(d) ==
    <<d[2], d[3], d[4], d[5], "-", d[6], d[7], "-", d[8], d[9]>>

LocatedKinds == {"Deployment", "SafetyIncident", "CurbsideRegulation"}

\* The dict the endpoint of kind k builds for a row.
Location(k, r) ==
    CASE k = "Deployment" ->
            [id |-> r.id, operator |-> r.operator, city |-> r.city,
             state |-> r.state, latitude |-> r.latitude,
             longitude |-> r.longitude, status |-> r.status,
             vehicle_type |-> r.vehicle_type]
      [] k = "SafetyIncident" ->
            [id |-> r.id, operator |-> r.manufacturer, city |-> r.city,
             state |-> r.state, latitude |-> r.latitude,
             longitude |-> r.longitude, incident_type |-> r.incident_type,
             date |-> IF r.date # None THEN IsoFormat(r.date) ELSE None]
      [] k = "CurbsideRegulation" ->
            [id |-> r.id, city |-> r.city, state |-> r.state,
             latitude |-> r.latitude, longitude |-> r.longitude,
             regulation_type |-> r.regulation_type, status |-> r.status]

\* The rows the comprehension of the endpoint keeps: the deployments endpoint
\* has no condition, the other two have `if latitude and longitude`.
Located(k, rows) ==
    IF k = "Deployment" THEN rows
    ELSE {r \in rows : Truthy(r.latitude) /\ Truthy(r.longitude)}

\* query.all() with no order_by: the rows in any order.
RECURSIVE All(_)
All(rows) ==
    IF rows = {} THEN {<<>>}
    ELSE UNION {{<<r>> \o rest : rest \in All(rows \ {r})} : r \in rows}

\* GET /api/<kind>/map/locations
MapLocations(k) ==
    /\ k \in LocatedKinds
    /\ req' = [op |-> "map_locations", kind |-> k]
    /\ \E items \in All(store[k]) :
          resp' = Response(200,
                    [i \in 1..Len(SelectSeq(items, LAMBDA r : r \in Located(k, store[k]))) |->
                        Location(k, SelectSeq(items,
                                       LAMBDA r : r \in Located(k, store[k]))[i])])
    /\ UNCHANGED <<store, focus, amount_str, amount, sessions>>

(***************************************************************************)
(* The endpoints over records an admin creates and deletes, each with a    *)
(* latitude and a longitude drawn from Coordinates (None: omitted).        *)
(***************************************************************************)

Coordinates == {None, FloatZero, <<"float", "37.5">>}

LocatedBody(k, latitude, longitude) ==
    [f \in RequiredFields(k)
           \cup (IF latitude = None THEN {} ELSE {"latitude"})
           \cup (IF longitude = None THEN {} ELSE {"longitude"}) |->
        IF f = "latitude" THEN latitude
        ELSE IF f = "longitude" THEN longitude
        ELSE SampleA(f)]

InitLocations ==
    /\ store = [k \in Kinds |-> SeedRows(k)]
    /\ focus \in LocatedKinds
    /\ req = NoRequest
    /\ resp = NoResponse
    /\ amount_str = None
    /\ amount = <<>>
    /\ sessions = <<>>

CreateLocated ==
    \E latitude \in Coordinates, longitude \in Coordinates :
        Create(focus, LocatedBody(focus, latitude, longitude), Admin)

DeleteLocated == \E id \in RequestIds : Delete(focus, id, Admin)

GetLocations == MapLocations(focus)

NextLocations == CreateLocated \/ DeleteLocated \/ GetLocations

SpecLocations == InitLocations /\ [][NextLocations]_vars

\* The ids of the entries of a map-locations response.
LocationIds(out) == {out[i].id : i \in DOMAIN out}

\* C11: in a map-locations response of any of the three kinds there is no
\* entry for a stored record whose latitude or longitude is null.
C11_NullCoordinatesExcluded ==
    req.op = "map_locations" =>
        \A r \in store[req.kind] :
            (r.latitude = None \/ r.longitude = None)
                => r.id \notin LocationIds(resp.body)

\* C12: in a map-locations response of any of the three kinds there is
\* exactly one entry for every stored record whose latitude and longitude
\* are both not null, whatever their value, and the entry has the projected
\* fields of the kind with the record's values.
C12_PresentCoordinatesIncluded ==
    req.op = "map_locations" =>
        \A r \in store[req.kind] :
            (r.latitude # None /\ r.longitude # None) =>
                /\ Cardinality({i \in DOMAIN resp.body : resp.body[i].id = r.id}) = 1
                /\ \A i \in DOMAIN resp.body :
                      resp.body[i].id = r.id =>
                          /\ resp.body[i].latitude = r.latitude
                          /\ resp.body[i].longitude = r.longitude
                          /\ resp.body[i].city = r.city
                          /\ resp.body[i].state = r.state

-----------------------------------------------------------------------------
(***************************************************************************)
(* The list endpoints and their filters (main.py _filter_<kind> and list)  *)
(***************************************************************************)

\* The equality parameters of _filter_<kind>, each compared with the
\* attribute of its own name.
FilterParams(k) ==
    CASE k = "Policy" -> {"status", "jurisdiction", "state_code"}
      [] k = "Deployment" -> {"status", "operator", "city", "state"}
      [] k = "FundingProgram" -> {"status", "agency", "funding_type"}
      [] k = "SafetyIncident" -> {"severity", "manufacturer", "incident_type", "state"}
      [] k = "Resource" -> {"resource_type", "category"}
      [] k = "CurbsideRegulation" -> {"status", "city", "state", "zone_type"}
      [] k = "NewsArticle" -> {"category"}

\* The attributes _filter_<kind> names in the or_(...) of its search.
SearchAttributes(k) ==
    CASE k = "Policy" -> {"title", "jurisdiction", "description"}
      [] k = "Deployment" -> {"operator", "city", "state", "description"}
      [] k = "FundingProgram" -> {"program_name", "agency", "description"}
      [] k = "SafetyIncident" -> {"title", "manufacturer", "description", "location"}
      [] k = "Resource" -> {"title", "description", "source"}
      [] k = "CurbsideRegulation" -> {"title", "city", "state", "description"}
      [] k = "NewsArticle" -> {"headline", "summary"}

\* models.py: the attributes of the mapped class.
Attributes(k) == Columns(k) \cup {"created_at", "updated_at"}

\* SQL LIKE: % is any text, _ any one character.
RECURSIVE Like(_, _)
Like(text, pattern) ==
    IF pattern = <<>> THEN text = <<>>
    ELSE IF Head(pattern) = "%"
    THEN Like(text, Tail(pattern)) \/ (text # <<>> /\ Like(Tail(text), pattern))
    ELSE /\ text # <<>>
         /\ Head(pattern) = "_" \/ Head(pattern) = Head(text)
         /\ Like(Tail(text), Tail(pattern))

\* column.ilike(f"%{search}%"): lower(column) LIKE lower(pattern), NULL for
\* a NULL column.
ILike(value, search) ==
    /\ value # None
    /\ Like(Lower(value), Lower(<<"%">> \o search \o <<"%">>))

\* _filter_<kind>: the rows of the query, or raised when the function names
\* an attribute the class does not have (AttributeError).  A parameter or a
\* search that is None or empty adds no clause.
Filter(k, rows, params, search) ==
    LET raised ==
            \/ \E p \in FilterParams(k) :
                  ~Falsy(params[p]) /\ p \notin Attributes(k)
            \/ ~Falsy(search) /\ \E f \in SearchAttributes(k) : f \notin Attributes(k)
    IN  [raised |-> raised,
         rows |->
            IF raised THEN {}
            ELSE {r \in rows :
                    /\ \A p \in FilterParams(k) :
                          ~Falsy(params[p]) => r[p] = params[p]
                    /\ ~Falsy(search) =>
                          \E f \in SearchAttributes(k) : ILike(r[f], search)}]

\* query.all(): the news query is ordered by publication_date descending,
\* the others are not ordered.
QueryAll(k, rows) ==
    IF k = "NewsArticle" THEN LatestByDate(rows, Cardinality(rows)) ELSE All(rows)

\* GET /api/<kind>
List(k, params, search) ==
    LET q == Filter(k, store[k], params, search)
    IN  /\ req' = [op |-> "list", kind |-> k, params |-> params, search |-> search]
        /\ IF q.raised
           THEN resp' = Response(500, <<>>)
           ELSE \E items \in QueryAll(k, q.rows) : resp' = Response(200, items)
        /\ UNCHANGED <<store, focus, amount_str, amount, sessions>>
-----------------------------------------------------------------------------
(***************************************************************************)
(* CSV export (main.py _model_to_dict, _rows_to_csv and the exports).  A   *)
(* text is a sequence of pieces; a piece is one character, or a column     *)
(* name, which is written whole.                                           *)
(***************************************************************************)

\* models.py: obj.__table__.columns, the columns in declaration order.
TableColumns(k) ==
    CASE k = "Policy" ->
            <<"id", "jurisdiction", "state_code", "policy_type", "title",
              "vehicle_class", "date_enacted", "status", "summary", "source_url",
              "created_at", "updated_at">>
      [] k = "Deployment" ->
            <<"id", "operator", "program_name", "city", "state", "state_code",
              "latitude", "longitude", "vehicle_type", "operational_domain",
              "status", "start_date", "description", "source_url", "created_at",
              "updated_at">>
      [] k = "FundingProgram" ->
            <<"id", "program_name", "agency", "funding_type", "total_funding",
              "award_range", "application_deadline", "date_enacted", "date_closed",
              "eligibility", "description", "av_relevance", "status", "source_url",
              "created_at", "updated_at">>
      [] k = "SafetyIncident" ->
            <<"id", "report_id", "date", "manufacturer", "vehicle_model", "city",
              "state", "state_code", "latitude", "longitude", "incident_type",
              "severity", "ads_engaged", "description", "source", "source_url",
              "created_at", "updated_at">>
      [] k = "Resource" ->
            <<"id", "title", "author_org", "resource_type", "publication_date",
              "tags", "topic_area", "summary", "url", "created_at", "updated_at">>
      [] k = "CurbsideRegulation" ->
            <<"id", "city", "state", "state_code", "latitude", "longitude",
              "regulation_type", "description", "applies_to", "date_adopted",
              "status", "source_url", "created_at", "updated_at">>
      [] k = "NewsArticle" ->
            <<"id", "headline", "source_org", "publication_date", "summary", "url",
              "category", "created_at", "updated_at">>

\* server_default=func.now(): the clock is not modelled, every timestamp is
\* this one instant, 2024-01-05 00:00:00.
Now ==
    <<"datetime", "2", "0", "2", "4", "0", "1", "0", "5",
      "0", "0", "0", "0", "0", "0">>

\* datetime.isoformat()
IsoFormatDateTime(d) ==
    <<d[2], d[3], d[4], d[5], "-", d[6], d[7], "-", d[8], d[9], "T",
      d[10], d[11], ":", d[12], d[13], ":", d[14], d[15]>>

\* str(n) of an int
RECURSIVE StrInt(_)
StrInt(n) ==
    IF n < 10 THEN <<ToString(n)>> ELSE StrInt(n \div 10) \o <<ToString(n % 10)>>

\* getattr(obj, col.name); the int n is written <<"int">> \o str(n) here.
GetAttr(r, name) ==
    IF name \in {"created_at", "updated_at"} THEN Now
    ELSE IF name = "id" THEN <<"int">> \o StrInt(r.id)
    ELSE r[name]

\* The conversion of _model_to_dict that leaves every value as it is.
ConvertNothing(val) == val

\* The conversion of _model_to_dict: a value with isoformat is replaced by
\* its ISO-8601 text.
Convert(val) ==
    IF IsTagged(val, "datetime") THEN IsoFormatDateTime(val)
    ELSE IF IsTagged(val, "date") THEN IsoFormat(val)
    ELSE val

\* _model_to_dict: the values of the columns, in the order of the columns.
_model_to_dict(k, obj) ==
    [i \in DOMAIN TableColumns(k) |-> Convert(GetAttr(obj, TableColumns(k)[i]))]

\* The text csv writes for a value: nothing for None, str(value) otherwise.
CsvStr(val) ==
    IF val = None THEN <<>>
    ELSE IF IsTagged(val, "int") THEN Tail(val)
    ELSE IF val = <<"float", "37.5">> THEN <<"3", "7", ".", "5">>
    ELSE IF val = <<"float", "0.0">> THEN <<"0", ".", "0">>
    ELSE IF val = <<"bool", "True">> THEN <<"T", "r", "u", "e">>
    ELSE IF val = <<"bool", "False">> THEN <<"F", "a", "l", "s", "e">>
    ELSE IF IsTagged(val, "datetime") THEN
        <<val[2], val[3], val[4], val[5], "-", val[6], val[7], "-", val[8], val[9],
          " ", val[10], val[11], ":", val[12], val[13], ":", val[14], val[15]>>
    ELSE IF IsTagged(val, "date") THEN IsoFormat(val)
    ELSE val

CsvSpecial == {",", "\"", "\r", "\n"}

RECURSIVE DoubleQuotes(_)
DoubleQuotes(t) ==
    IF t = <<>> THEN <<>>
    ELSE (IF Head(t) = "\"" THEN <<"\"", "\"">> ELSE <<Head(t)>>)
         \o DoubleQuotes(Tail(t))

\* csv.QUOTE_MINIMAL: a field with a delimiter, a quote or a line break is
\* quoted, its quotes doubled.
CsvField(t) ==
    IF \E i \in DOMAIN t : t[i] \in CsvSpecial
    THEN <<"\"">> \o DoubleQuotes(t) \o <<"\"">>
    ELSE t

\* writer.writerow: the fields joined by ',' and ended by '\r\n'.  A row has
\* several fields.
RECURSIVE CsvRow(_)
CsvRow(fields) ==
    IF Len(fields) = 1 THEN CsvField(fields[1]) \o <<"\r", "\n">>
    ELSE CsvField(fields[1]) \o <<",">> \o CsvRow(Tail(fields))

RECURSIVE CsvRows(_)
CsvRows(rows) ==
    IF rows = <<>> THEN <<>>
    ELSE CsvRow([i \in DOMAIN rows[1] |-> CsvStr(rows[1][i])]) \o CsvRows(Tail(rows))

\* _rows_to_csv: the body of the response; the keys of rows[0] are the
\* columns of the kind.
_rows_to_csv(k, rows) ==
    IF rows = <<>> THEN <<>>
    ELSE CsvRow([i \in DOMAIN TableColumns(k) |-> <<TableColumns(k)[i]>>])
         \o CsvRows(rows)

\* GET /api/<kind>/export/csv
Export(k, params, search) ==
    LET q == Filter(k, store[k], params, search)
    IN  /\ req' = [op |-> "export", kind |-> k, params |-> params, search |-> search]
        /\ IF q.raised
           THEN resp' = Response(500, <<>>)
           ELSE \E items \in QueryAll(k, q.rows) :
                  resp' = Response(200,
                            _rows_to_csv(k, [i \in DOMAIN items |->
                                                _model_to_dict(k, items[i])]))
        /\ UNCHANGED <<store, focus, amount_str, amount, sessions>>
\* The first position from i on of a piece of t in `pieces`, Len(t) + 1 when
\* there is none.
First(t, i, pieces) ==
    IF \E j \in i..Len(t) : t[j] \in pieces
    THEN CHOOSE j \in i..Len(t) :
            t[j] \in pieces /\ \A m \in i..(j - 1) : t[m] \notin pieces
    ELSE Len(t) + 1

\* The position of the quote that closes the quoted field opened at i: the
\* first quote after an even number of quotes that no quote follows.
Closing(t, i) ==
    LET closes(j) ==
            /\ t[j] = "\""
            /\ Cardinality({m \in (i + 1)..j : t[m] = "\""}) % 2 = 1
            /\ j = Len(t) \/ t[j + 1] # "\""
    IN  IF \E j \in (i + 1)..Len(t) : closes(j)
        THEN CHOOSE j \in (i + 1)..Len(t) :
                closes(j) /\ \A m \in (i + 1)..(j - 1) : ~closes(m)
        ELSE Len(t) + 1

\* The text of a quoted field: each doubled quote is one quote.
RECURSIVE Unquote(_)
Unquote(s) ==
    IF s = <<>> THEN <<>>
    ELSE IF Head(s) = "\"" /\ Len(s) >= 2 /\ s[2] = "\""
    THEN <<"\"">> \o Unquote(Tail(Tail(s)))
    ELSE <<Head(s)>> \o Unquote(Tail(s))

\* csv.reader: the records of a text, each the sequence of its fields.  The
\* reader is at the start of a field, at piece i, with the record read so
\* far.
RECURSIVE CsvRead(_, _, _, _)
CsvRead(t, i, record, records) ==
    IF i > Len(t)
    THEN IF record = <<>> THEN records ELSE Append(records, Append(record, <<>>))
    ELSE LET quoted == t[i] = "\""
             close == IF quoted THEN Closing(t, i) ELSE i
             stop == First(t, IF quoted THEN close + 1 ELSE i, {",", "\r", "\n"})
             field == IF quoted
                      THEN Unquote(SubSeq(t, i + 1, close - 1))
                           \o SubSeq(t, close + 1, stop - 1)
                      ELSE SubSeq(t, i, stop - 1)
         IN  IF stop > Len(t) THEN Append(records, Append(record, field))
             ELSE IF t[stop] = ","
             THEN CsvRead(t, stop + 1, Append(record, field), records)
             ELSE CsvRead(t,
                          IF t[stop] = "\r" /\ stop < Len(t) /\ t[stop + 1] = "\n"
                          THEN stop + 2 ELSE stop + 1,
                          <<>>, Append(records, Append(record, field)))

CsvParse(t) == CsvRead(t, 1, <<>>, <<>>)

(***************************************************************************)
(* The list and export endpoints over records an admin creates and         *)
(* deletes.  A request gives no parameter; or a search; or one equality    *)
(* parameter, alone or with a search; or two equality parameters.          *)
(***************************************************************************)

Comma == <<"a", ",", "\"", "b">>

ListBodies(k) ==
    {BodyFull(k), BodyMin(k),
     [f \in SchemaFields(k) |->
         IF f = NamedRequired(k) THEN Comma
         ELSE IF f \in {"source_url", "url"} THEN <<>>
         ELSE SampleA(f)]}

NoParams(k) == [p \in FilterParams(k) |-> None]

Searches == {<<>>, <<"A">>, <<"_">>}

ListInputs(k) ==
    {<<NoParams(k), None>>}
    \cup {<<NoParams(k), s>> : s \in Searches}
    \cup {<<[NoParams(k) EXCEPT ![p] = v], None>> :
            p \in FilterParams(k), v \in {<<>>, <<"a">>, <<"b">>}}
    \cup {<<[NoParams(k) EXCEPT ![p] = <<"a">>], <<"A">>>> : p \in FilterParams(k)}
    \cup {<<[NoParams(k) EXCEPT ![p] = <<"a">>, ![q] = v], None>> :
            p \in FilterParams(k), q \in FilterParams(k), v \in {<<"a">>, <<"b">>}}

ExportInputs(k) ==
    {<<NoParams(k), None>>, <<NoParams(k), <<"A">>>>}
    \cup {<<[NoParams(k) EXCEPT ![p] = <<"b">>], None>> : p \in FilterParams(k)}

InitList ==
    /\ store = [k \in Kinds |-> SeedRows(k)]
    /\ focus \in Kinds
    /\ req = NoRequest
    /\ resp = NoResponse
    /\ amount_str = None
    /\ amount = <<>>
    /\ sessions = <<>>

CreateListed == \E body \in ListBodies(focus) : Create(focus, body, Admin)

DeleteListed == \E id \in RequestIds : Delete(focus, id, Admin)

ListRequest == \E in \in ListInputs(focus) : List(focus, in[1], in[2])

ExportRequest == \E in \in ExportInputs(focus) : Export(focus, in[1], in[2])

NextList == CreateListed \/ DeleteListed \/ ListRequest \/ ExportRequest

SpecList == InitList /\ [][NextList]_vars

\* The ids of the records of a list response.
ListedIds(out) == {out[i].id : i \in DOMAIN out}

\* C13: a list request with equality parameters and no search succeeds and
\* returns exactly the records whose field equals the value of every
\* parameter given (all records when none is given), which is the
\* intersection of the results of each parameter alone.
C13_EqualityFiltersIntersect ==
    (req.op = "list" /\ req.search = None) =>
        /\ resp.status = 200
        /\ ListedIds(resp.body) =
              {r.id : r \in {x \in store[req.kind] :
                  \A p \in FilterParams(req.kind) :
                      req.params[p] # None =>
                          p \in Columns(req.kind) /\ x[p] = req.params[p]}}
        /\ Len(resp.body) = Cardinality(ListedIds(resp.body))

\* s occurs in t.
Contains(t, s) ==
    \E i \in 0..(Len(t) - Len(s)) : SubSeq(t, i + 1, i + Len(s)) = s

\* C14: a list or export request with a non-empty search succeeds, and the
\* list returns exactly the records that pass the equality parameters and
\* hold the search, compared without case, in one of the text fields of the
\* kind's search.
C14_SearchSubstring ==
    (req.op \in {"list", "export"} /\ ~Falsy(req.search)) =>
        /\ resp.status = 200
        /\ req.op = "list" =>
              ListedIds(resp.body) =
                {r.id : r \in {x \in store[req.kind] :
                    /\ \A p \in FilterParams(req.kind) :
                          ~Falsy(req.params[p]) =>
                              p \in Columns(req.kind) /\ x[p] = req.params[p]
                    /\ \E f \in SearchAttributes(req.kind) \cap Columns(req.kind) :
                          /\ x[f] # None
                          /\ Contains(Lower(x[f]), Lower(req.search))}}

\* An ISO-8601 date and time, YYYY-MM-DDTHH:MM:SS.
IsIsoDateTime(v) ==
    /\ Len(v) = 19
    /\ IsIsoDate(SubSeq(v, 1, 10))
    /\ v[11] = "T" /\ v[14] = ":" /\ v[17] = ":"
    /\ \A i \in {12, 13, 15, 16, 18, 19} : v[i] \in AsciiDigits

\* The filtered record set of an export request.
Exported == Filter(req.kind, store[req.kind], req.params, req.search).rows

\* C15: an export with no parameter and no search succeeds.  The body of a
\* successful export of an empty filtered set is empty; that of a non-empty
\* one parses to a header row, which is the columns of the kind in
\* declaration order, and one row per record of the filtered set, whose
\* date cells are empty or ISO-8601 dates and whose timestamp cells are
\* ISO-8601 dates and times.
C15_CsvHeaderAndRows ==
    req.op = "export" =>
        /\ (req.search = None /\ req.params = NoParams(req.kind)) => resp.status = 200
        /\ resp.status = 200 =>
              LET columns == TableColumns(req.kind)
                  parsed == CsvParse(resp.body)
              IN  IF Exported = {} THEN resp.body = <<>>
                  ELSE /\ Len(parsed) = 1 + Cardinality(Exported)
                       /\ parsed[1] = [i \in DOMAIN columns |-> <<columns[i]>>]
                       /\ {parsed[j][1] : j \in 2..Len(parsed)}
                             = {StrInt(r.id) : r \in Exported}
                       /\ \A j \in 2..Len(parsed) :
                             /\ Len(parsed[j]) = Len(columns)
                             /\ \A i \in DOMAIN columns :
                                   /\ columns[i] \in DateFields =>
                                         \/ parsed[j][i] = <<>>
                                         \/ IsIsoDate(parsed[j][i])
                                   /\ columns[i] \in {"created_at", "updated_at"} =>
                                         IsIsoDateTime(parsed[j][i])

\* C15 witness: an export of two records, one of them with a field that
\* holds a comma and a quote, gave a header and two rows.
C15_Witness ==
    /\ req.op = "export"
    /\ resp.status = 200
    /\ Cardinality(Exported) = 2
    /\ \E r \in Exported : r[NamedRequired(req.kind)] = Comma
    /\ Len(CsvParse(resp.body)) = 3
    /\ \E j \in 2..3 : \E i \in DOMAIN CsvParse(resp.body)[j] :
          CsvParse(resp.body)[j][i] = Comma

\* The field values of a record as an export holds them: a null is a null,
\* a date or timestamp its ISO-8601 text, any other value its text.
FieldTexts(k, r) ==
    [i \in DOMAIN TableColumns(k) |->
        IF GetAttr(r, TableColumns(k)[i]) = None THEN None
        ELSE CsvStr(Convert(GetAttr(r, TableColumns(k)[i])))]

\* C16: the rows parsed from the body of a successful export are the field
\* values of the records of the filtered set, a null field staying distinct
\* from an empty text.
C16_CsvRoundTrip ==
    (req.op = "export" /\ resp.status = 200) =>
        LET parsed == CsvParse(resp.body)
        IN  {parsed[j] : j \in 2..Len(parsed)}
                = {FieldTexts(req.kind, r) : r \in Exported}

-----------------------------------------------------------------------------
(***************************************************************************)
(* The safety statistics (main.py 602-652)                                 *)
(***************************************************************************)

StatsFields == {"manufacturer", "incident_type", "severity"}

\* GET /api/safety/stats/by-manufacturer, by-type, by-severity: one dict per
\* group of GROUP BY field, the groups in any order.
Stats(field) ==
    LET rows == store["SafetyIncident"]
        results == {[x \in {field, "count"} |->
                        IF x = "count" THEN Count(Group(rows, field, key)) ELSE key] :
                    key \in GroupKeys(rows, field)}
    IN  /\ field \in StatsFields
        /\ req' = [op |-> "stats", field |-> field]
        /\ \E out \in All(results) : resp' = Response(200, out)
        /\ UNCHANGED <<store, focus, amount_str, amount, sessions>>

\* extract("year", date): the year as an int, written <<"int">> \o str(n);
\* NULL for a NULL date.
Year(d) == IF d = None THEN None ELSE <<"int">> \o StrInt(NatOf(SubSeq(d, 2, 5)))

\* order_by("year"): the dicts by ascending year, NULL first.
RECURSIVE ByYear(_)
ByYear(results) ==
    IF results = {} THEN <<>>
    ELSE LET first == CHOOSE e \in results :
                        \/ e.year = None
                        \/ \A o \in results :
                              /\ o.year # None
                              /\ NatOf(Tail(e.year)) <= NatOf(Tail(o.year))
         IN  <<first>> \o ByYear(results \ {first})

\* GET /api/safety/stats/by-year
StatsByYear ==
    LET rows == store["SafetyIncident"]
        years == {Year(r.date) : r \in rows}
        results == {[year |-> y,
                     count |-> Count({r \in rows : Year(r.date) = y})] : y \in years}
    IN  /\ req' = [op |-> "stats_by_year"]
        /\ resp' = Response(200, ByYear(results))
        /\ UNCHANGED <<store, focus, amount_str, amount, sessions>>

(***************************************************************************)
(* The statistics over incidents an admin creates and deletes: an incident *)
(* has one of two dates of 2024 or a date of 2023, and a severity that is  *)
(* omitted, empty or given.                                                *)
(***************************************************************************)

IsoC == <<"2", "0", "2", "4", "-", "1", "1", "-", "3", "0">>

Incidents ==
    ({IsoA} \X {<<"a">>, <<"b">>} \X {<<"a">>} \X {None, <<>>, <<"a">>})
    \cup ({IsoB, IsoC} \X {<<"a">>} \X {<<"a">>, <<"b">>} \X {None, <<"b">>})

IncidentBody(i) ==
    [f \in RequiredFields("SafetyIncident") \cup
           (IF i[4] = None THEN {} ELSE {"severity"}) |->
        CASE f = "date" -> i[1]
          [] f = "manufacturer" -> i[2]
          [] f = "incident_type" -> i[3]
          [] f = "severity" -> i[4]]

InitStats ==
    /\ store = [k \in Kinds |-> SeedRows(k)]
    /\ focus = "SafetyIncident"
    /\ req = NoRequest
    /\ resp = NoResponse
    /\ amount_str = None
    /\ amount = <<>>
    /\ sessions = <<>>

CreateIncident == \E i \in Incidents : Create(focus, IncidentBody(i), Admin)

DeleteIncident == \E id \in RequestIds : Delete(focus, id, Admin)

StatsRequest == \E field \in StatsFields : Stats(field)

NextStats == CreateIncident \/ DeleteIncident \/ StatsRequest \/ StatsByYear

SpecStats == InitStats /\ [][NextStats]_vars

RECURSIVE SumCounts(_)
SumCounts(out) == IF out = <<>> THEN 0 ELSE Head(out).count + SumCounts(Tail(out))

\* C17: a by-manufacturer, by-type or by-severity response has exactly one
\* group per distinct value of the field, null being a value, each with the
\* number of incidents of that value, and its counts add up to the number
\* of incidents.  A by-year response has exactly one group per year of an
\* incident date, each with the number of incidents dated in that year, no
\* group of a null year, and its counts add up to the number of incidents
\* whose date is not null.
C17_GroupCountsAddUp ==
    LET rows == store["SafetyIncident"]
        out == resp.body
    IN  /\ req.op = "stats" =>
              /\ resp.status = 200
              /\ {out[i][req.field] : i \in DOMAIN out} = {r[req.field] : r \in rows}
              /\ Len(out) = Cardinality({r[req.field] : r \in rows})
              /\ \A i \in DOMAIN out :
                    out[i].count =
                        Cardinality({r \in rows : r[req.field] = out[i][req.field]})
              /\ SumCounts(out) = Cardinality(rows)
        /\ req.op = "stats_by_year" =>
              /\ resp.status = 200
              /\ \A i \in DOMAIN out : out[i].year # None
              /\ {Tail(out[i].year) : i \in DOMAIN out}
                    = {SubSeq(r.date, 2, 5) : r \in {x \in rows : x.date # None}}
              /\ Len(out) = Cardinality({out[i].year : i \in DOMAIN out})
              /\ \A i \in DOMAIN out :
                    out[i].count =
                        Cardinality({r \in rows : r.date # None
                                        /\ SubSeq(r.date, 2, 5) = Tail(out[i].year)})
              /\ SumCounts(out) = Cardinality({r \in rows : r.date # None})

\* C17 witness: by-severity over an incident of null severity and one of
\* severity "a" gave two groups of one.
C17_Witness ==
    /\ req.op = "stats" /\ req.field = "severity"
    /\ {r.severity : r \in store["SafetyIncident"]} = {None, <<"a">>}
    /\ Len(resp.body) = 2
    /\ \A i \in DOMAIN resp.body : resp.body[i].count = 1

-----------------------------------------------------------------------------
(***************************************************************************)
(* The dashboard over records of two kinds.  An admin creates, updates and *)
(* deletes policies and records of the kind in focus, at most MaxRecords   *)
(* at a time in the store; a policy has a state_code or none.              *)
(***************************************************************************)

MaxRecords == 2

TotalsKinds == {"Policy", focus}

RECURSIVE Records(_)
Records(kinds) ==
    IF kinds = {} THEN 0
    ELSE LET k == CHOOSE x \in kinds : TRUE
         IN  Cardinality(store[k]) + Records(kinds \ {k})

TotalsBodies(k) ==
    IF k = "Policy" THEN {PolicyBody(None, Enacted), PolicyBody(CA, Enacted),
                          PolicyBody(TX, Pending)}
    ELSE {BodyMin(k)}

InitTotals ==
    /\ store = [k \in Kinds |-> SeedRows(k)]
    /\ focus \in Kinds
    /\ req = NoRequest
    /\ resp = NoResponse
    /\ amount_str = None
    /\ amount = <<>>
    /\ sessions = <<>>

CreateAny ==
    \E k \in TotalsKinds : \E body \in TotalsBodies(k) :
        Records(Kinds) < MaxRecords /\ Create(k, body, Admin)

UpdateAny ==
    \E k \in TotalsKinds : \E body \in TotalsBodies(k) : \E id \in RequestIds :
        Update(k, id, body, Admin)

DeleteAny == \E k \in TotalsKinds : \E id \in RequestIds : Delete(k, id, Admin)

NextTotals == CreateAny \/ UpdateAny \/ DeleteAny \/ Dashboard

SpecTotals == InitTotals /\ [][NextTotals]_vars

\* C18: the dashboard's states_with_legislation is the number of distinct
\* state_code values of the policies that are not null.
C18_StatesWithLegislation ==
    req.op = "dashboard" =>
        /\ resp.status = 200
        /\ resp.body.states_with_legislation =
              Cardinality({r.state_code : r \in store["Policy"]} \ {None})

\* The total the dashboard reports for kind k.
TotalOf(body, k) ==
    CASE k = "Policy" -> body.total_policies
      [] k = "Deployment" -> body.total_deployments
      [] k = "FundingProgram" -> body.total_funding_programs
      [] k = "SafetyIncident" -> body.total_safety_incidents
      [] k = "Resource" -> body.total_resources
      [] k = "CurbsideRegulation" -> body.total_curbside_regulations
      [] k = "NewsArticle" -> body.total_news_articles

\* The ids of the stored records of kind k.
IdsOf(k) == {r.id : r \in store[k]}

\* C19: every total of a dashboard response is the number of records of its
\* kind in the store; a successful create adds one to the number of its
\* kind, a successful delete takes one from it, an update leaves it, and no
\* write changes the number of another kind.
C19_TotalsFollowWrites ==
    /\ [](req.op = "dashboard" =>
            /\ resp.status = 200
            /\ \A k \in Kinds : TotalOf(resp.body, k) = Cardinality(IdsOf(k)))
    /\ [][(req'.op \in {"create", "update", "delete"} /\ resp'.status = 200) =>
            \A k \in Kinds :
                Cardinality(store[k])' = Cardinality(store[k])
                    + (IF k = req'.kind /\ req'.op = "create" THEN 1 ELSE 0)
                    - (IF k = req'.kind /\ req'.op = "delete" THEN 1 ELSE 0)]_vars

\* C19 witness: the dashboard reported one policy and one news article, the
\* policy being what is left of two after a delete.
C19_Witness ==
    /\ req.op = "dashboard"
    /\ IdsOf("Policy") = {2}
    /\ IdsOf("NewsArticle") = {1}
    /\ resp.body.total_policies = 1
    /\ resp.body.total_news_articles = 1
    /\ resp.body.total_deployments = 0

\* C20: the dashboard's recent_policies is the stored policies, five at the
\* most, by descending identifier; and a newly created policy gets an
\* identifier greater than every identifier assigned before it: than those
\* of the stored policies and than that of a policy the request before it
\* deleted.
C20_RecentPoliciesMonotonicIds ==
    /\ [](req.op = "dashboard" =>
            LET out == resp.body.recent_policies
                n == Cardinality(store["Policy"])
            IN  /\ Len(out) = IF n < RecentPoliciesLimit THEN n
                              ELSE RecentPoliciesLimit
                /\ \A i \in DOMAIN out : out[i] \in store["Policy"]
                /\ \A i \in DOMAIN out : \A r \in store["Policy"] :
                      r.id > out[i].id => \E j \in 1..(i - 1) : out[j] = r
                /\ \A i, j \in DOMAIN out : i < j => out[i].id > out[j].id)
    /\ [][(req'.op = "create" /\ req'.kind = "Policy" /\ resp'.status = 200) =>
            /\ \A id \in IdsOf("Policy") : resp'.body.id > id
            /\ (req.op = "delete" /\ req.kind = "Policy" /\ resp.status = 200)
                  => resp'.body.id > req.id]_vars

(***************************************************************************)
(* The rollup over the three policies (CA, enacted), (CA, pending) and     *)
(* (TX, pending), as three admin creates leave them, which an admin then   *)
(* updates, deletes and creates again.                                     *)
(***************************************************************************)

RollupPolicies == <<<<CA, Enacted>>, <<CA, Pending>>, <<TX, Pending>>>>

RollupRows ==
    {NewRow("Policy", Validate("Policy", PolicyBody(RollupPolicies[i][1],
                                                    RollupPolicies[i][2])).data, i) :
        i \in DOMAIN RollupPolicies}

InitRollup ==
    /\ store = [k \in Kinds |-> IF k = "Policy" THEN RollupRows ELSE SeedRows(k)]
    /\ focus = "Policy"
    /\ req = NoRequest
    /\ resp = NoResponse
    /\ amount_str = None
    /\ amount = <<>>
    /\ sessions = <<>>

CreateRollup ==
    \E i \in DOMAIN RollupPolicies :
        Create(focus, PolicyBody(RollupPolicies[i][1], RollupPolicies[i][2]), Admin)

UpdateRollup ==
    \E id \in RequestIds : \E i \in DOMAIN RollupPolicies :
        Update(focus, id, PolicyBody(RollupPolicies[i][1], RollupPolicies[i][2]), Admin)

NextRollup == CreateRollup \/ UpdateRollup \/ DeletePolicy \/ MapStates

SpecRollup == InitRollup /\ [][NextRollup]_vars

\* The status the rollup `out` reports for `state_code`.
StatusOf(out, state_code) ==
    {out[i].status : i \in {j \in DOMAIN out : out[j].state_code = state_code}}

\* The reported status of every entry is held by some policy of its state and
\* no status is held by more policies of that state.
RollupTopIsMaximal ==
    req.op = "map_states" =>
        LET out == resp.body
            rows == store["Policy"]
            n(sc, s) == Cardinality({r \in rows : r.state_code = sc /\ r.status = s})
        IN  \A i \in DOMAIN out : \A r \in rows :
                r.state_code = out[i].state_code =>
                    /\ n(out[i].state_code, out[i].status) > 0
                    /\ n(out[i].state_code, r.status)
                          <= n(out[i].state_code, out[i].status)

\* The rollup of exactly (CA, enacted), (CA, pending) and (TX, pending)
\* reports "enacted" for CA and "pending" for TX.
RollupExample ==
    (/\ req.op = "map_states"
     /\ Cardinality(store["Policy"]) = Len(RollupPolicies)
     /\ {<<r.state_code, r.status>> : r \in store["Policy"]}
            = {RollupPolicies[i] : i \in DOMAIN RollupPolicies})
        => /\ StatusOf(resp.body, CA) = {Enacted}
           /\ StatusOf(resp.body, TX) = {Pending}

\* Two rollups with no write between them report the same status and the
\* same bucket for every state.
RollupRepeats ==
    (req.op = "map_states" /\ req'.op = "map_states") =>
        \A i \in DOMAIN resp.body : \A j \in DOMAIN resp'.body :
            resp.body[i].state_code = resp'.body[j].state_code =>
                /\ resp.body[i].status = resp'.body[j].status
                /\ resp.body[i].policy_status = resp'.body[j].policy_status

\* C21: the status the rollup reports for a state is a status held by the
\* largest number of that state's policies, and among several such statuses
\* the choice is fixed: the same policies always yield the same status and
\* bucket for every state (two rollups with no write between them agree),
\* and for the policies (CA, enacted), (CA, pending) and (TX, pending) CA
\* reports "enacted" and TX "pending".
C21_TopStatusDeterministic ==
    /\ [](RollupTopIsMaximal /\ RollupExample)
    /\ [][RollupRepeats]_vars

(***************************************************************************)
(* The dashboard over seven news articles, one more than recent_news       *)
(* holds: articles 3 to 7 are of 3 to 7 January 2024 and articles 1 and 2  *)
(* both of 1 January, so that two articles share the date at the cut-off.  *)
(* An admin then updates and deletes the first articles.                   *)
(***************************************************************************)

NewsArticles == RecentNewsLimit + 1

NewsDay(d) == <<"2", "0", "2", "4", "-", "0", "1", "-", "0">> \o StrInt(d)

NewsBody(day) ==
    [f \in RequiredFields("NewsArticle") |->
        IF f = "publication_date" THEN NewsDay(day) ELSE SampleB(f)]

NewsRows ==
    {NewRow("NewsArticle",
            Validate("NewsArticle", NewsBody(IF i < 3 THEN 1 ELSE i)).data, i) :
        i \in 1..NewsArticles}

InitNews ==
    /\ store = [k \in Kinds |-> IF k = "NewsArticle" THEN NewsRows ELSE SeedRows(k)]
    /\ focus = "NewsArticle"
    /\ req = NoRequest
    /\ resp = NoResponse
    /\ amount_str = None
    /\ amount = <<>>
    /\ sessions = <<>>

UpdateNews ==
    \E id \in RequestIds : \E day \in {1, 5} : Update(focus, id, NewsBody(day), Admin)

DeleteNews == \E id \in RequestIds : Delete(focus, id, Admin)

NextNews == UpdateNews \/ DeleteNews \/ Dashboard

SpecNews == InitNews /\ [][NextNews]_vars

\* recent_news is min(6, n) distinct stored articles in descending order of
\* publication date, and no article left out is of a later date than one
\* that is in.
RecentNewsLatest ==
    (req.op = "dashboard" /\ resp.status = 200) =>
        LET out == resp.body.recent_news
            rows == store["NewsArticle"]
            n == Cardinality(rows)
            date(r) == DateNumber(r.publication_date)
        IN  /\ Len(out) = IF n < RecentNewsLimit THEN n ELSE RecentNewsLimit
            /\ \A i \in DOMAIN out : out[i] \in rows
            /\ \A i, j \in DOMAIN out : i < j =>
                  /\ out[i] # out[j]
                  /\ date(out[i]) >= date(out[j])
            /\ \A r \in rows \ {out[i] : i \in DOMAIN out} :
                  \A i \in DOMAIN out : date(r) <= date(out[i])

\* Two dashboard calls with no write between them return the same
\* recent_news in the same order.
RecentNewsRepeats ==
    (/\ req.op = "dashboard" /\ resp.status = 200
     /\ req'.op = "dashboard" /\ resp'.status = 200)
        => resp'.body.recent_news = resp.body.recent_news

\* C22: the dashboard's recent_news is the min(6, n) news articles of the
\* latest publication dates in descending order of publication date, and for
\* a fixed set of articles it is always the same list: two dashboard calls
\* with no write between them return the same recent_news in the same order,
\* also when several articles share a publication date at the cut-off.
C22_RecentNewsDeterministic ==
    /\ []RecentNewsLatest
    /\ [][RecentNewsRepeats]_vars

(***************************************************************************)
(* Safety incidents an admin creates, updates and deletes, their report_id *)
(* drawn from ReportIds (None: the field is omitted).                      *)
(***************************************************************************)

ReportIds == {None, <<"a">>, <<"b">>}

ReportBody(report_id) ==
    [f \in RequiredFields("SafetyIncident") \cup
           (IF report_id = None THEN {} ELSE {"report_id"}) |->
        IF f = "report_id" THEN report_id ELSE SampleB(f)]

InitReports ==
    /\ store = [k \in Kinds |-> SeedRows(k)]
    /\ focus = "SafetyIncident"
    /\ req = NoRequest
    /\ resp = NoResponse
    /\ amount_str = None
    /\ amount = <<>>
    /\ sessions = <<>>

CreateReport == \E rid \in ReportIds : Create(focus, ReportBody(rid), Admin)

UpdateReport ==
    \E id \in RequestIds : \E rid \in ReportIds : Update(focus, id, ReportBody(rid), Admin)

DeleteReport == \E id \in RequestIds : Delete(focus, id, Admin)

NextReports == CreateReport \/ UpdateReport \/ DeleteReport

SpecReports == InitReports /\ [][NextReports]_vars

\* The report_id a request body gives, None when it gives none.
ReportIdOf(body) == IF "report_id" \in DOMAIN body THEN body["report_id"] ELSE None

\* The next request is a create or update of a safety incident whose
\* report_id is that of a stored incident other than the one it updates.
WouldDuplicate ==
    /\ req'.op \in {"create", "update"}
    /\ req'.kind = "SafetyIncident"
    /\ ReportIdOf(req'.body) # None
    /\ \E r \in store["SafetyIncident"] :
          r.id # req'.id /\ r.report_id = ReportIdOf(req'.body)

\* C23: no two stored safety incidents share a report_id that is not null;
\* an admin create or update that would give an incident the report_id of
\* another stored incident does not succeed and leaves the store unchanged;
\* and a create without report_id succeeds however many stored incidents
\* have none.
C23_ReportIdUnique ==
    /\ [](\A r1, r2 \in store["SafetyIncident"] :
            (r1.report_id = r2.report_id /\ r1.report_id # None) => r1 = r2)
    /\ [][WouldDuplicate => (resp'.status # 200 /\ store' = store)]_vars
    /\ [][(/\ req'.op = "create" /\ req'.kind = "SafetyIncident"
           /\ verify_admin(req'.credentials)
           /\ req'.body = ReportBody(None))
            => /\ resp'.status = 200
               /\ resp'.body.report_id = None
               /\ store'["SafetyIncident"] = store["SafetyIncident"] \cup {resp'.body}
               /\ resp'.body \notin store["SafetyIncident"]]_vars

\* C23 witness: with an incident of report_id "a" stored, the create of a
\* second one of report_id "a" was refused and the first is the only one.
C23_Witness ==
    /\ req.op = "create"
    /\ req.kind = "SafetyIncident"
    /\ ReportIdOf(req.body) = <<"a">>
    /\ resp.status = 500
    /\ Cardinality(store["SafetyIncident"]) = 1
    /\ \A r \in store["SafetyIncident"] : r.report_id = <<"a">>

\* Two stored incidents without report_id.
TwoWithoutReportId ==
    /\ Cardinality(store["SafetyIncident"]) = 2
    /\ \A r \in store["SafetyIncident"] : r.report_id = None

(***************************************************************************)
(* Startup: on_startup removes the database file, creates the tables and   *)
(* seeds them. A restart of the process runs it again over the file the    *)
(* process before it left.                                                 *)
(***************************************************************************)

\* The database file left in place.
KeepDatabase(db) == db

\* os.remove(db_path), then Base.metadata.create_all: every table is there
\* and empty. (create_all over a file that was not removed adds nothing.)
RemoveDatabase(db) == [k \in Kinds |-> {}]

\* seed_database(db): the seed rows are added to the tables.
seed_database(db) == [k \in Kinds |-> db[k] \cup SeedRows(k)]

on_startup(db) == seed_database(RemoveDatabase(db))

\* The process is restarted; `discarded` is the number of records in the
\* file it found.
Restart ==
    /\ req' = [op |-> "startup", discarded |-> Records(Kinds)]
    /\ resp' = NoResponse
    /\ store' = on_startup(store)
    /\ UNCHANGED <<focus, amount_str, amount, sessions>>

NextRestart ==
    CreateAny \/ UpdateAny \/ DeleteAny \/ GetRequest \/ Dashboard \/ Restart

SpecRestart == InitTotals /\ [][NextRestart]_vars

=============================================================================
